---- MODULE Spec2Model ----
(***************************************************************************)
(* The real-time coordination core of agent-kanban-pm: the autopilot       *)
(* control loop (routers/autopilot.py), the request handlers that write    *)
(* the same task rows (routers/tasks.py, routers/ui.py), and the websocket *)
(* handlers with the connection registry they drive (routers/websockets.py *)
(* and websocket_manager).                                                 *)
(***************************************************************************)
EXTENDS Naturals, Sequences, FiniteSets, TLC

\* ------------------------------------------------------------------ bounds
\* unassign requests that leave a task without assignee are issued for it while it
\* has fewer log rows than this
MaxLogs == 1
\* text frames the peers send, all connections together
MaxFrames == 2
\* broadcast_to_project calls made
MaxBroadcasts == 1

\* -------------------------------------------------------------- intervals
\* await asyncio.sleep(5) at the end of the try block
SleepSeconds == 5
\* await asyncio.sleep(5) in the except clause
ErrorSleepSeconds == 5

\* ------------------------------------------------------------ storage rows
\* AutopilotConfig.manager_id: Optional[int] = None
None == 0 - 1
\* ids of the Entity rows
Entities == {1, 2}
\* an id no Entity row has
NoSuchEntity == Cardinality(Entities) + 1
\* the values a request can put in AutopilotConfig.manager_id
ManagerIds == {None, 1, NoSuchEntity}
\* ids of the Task rows
Tasks == {1, 2}
\* TaskStatus: the value the loop filters on and one of the others
Statuses == {"pending", "completed"}
\* Task.project_id of each row (fixed: no handler modelled here changes it)
project_id == [t \in Tasks |-> t]
\* Task.title of each row
title == [t \in Tasks |-> IF t = 1 THEN "write docs" ELSE "fix bug"]
\* Entity.name of each row
name == [e \in Entities |-> IF e = 1 THEN "alice" ELSE "bob"]

\* Task.project_id values
Projects == {project_id[t] : t \in Tasks}
\* the websocket transports that ask for admission
Conns == {1, 2}
\* what a peer puts in a text frame
Texts == {"ping", "{bad json"}
\* the registry's keys: a project id, or None for the global channel
Scopes == Projects \cup {None}
\* str(project_id) inside an f-string
Str == [p \in Projects |-> IF p = 1 THEN "1" ELSE "2"]

\* the values of the pydantic model AutopilotConfig
AutopilotConfig == [enabled : BOOLEAN, manager_id : ManagerIds]

\* the fields of AutopilotConfig
Fields == {"enabled", "manager_id"}

\* the JSON values the request bodies carry in each field (a null manager_id parses
\* to the same value as an omitted one)
JsonValues == [enabled |-> {"true", "false"}, manager_id |-> {"1", "3"}]

\* the request bodies POST /ui/autopilot/config accepts: any subset of the fields
Bodies ==
    UNION {{b \in [fs -> {"true", "false", "1", "3"}] :
                \A f \in fs : b[f] \in JsonValues[f]} : fs \in SUBSET Fields}

\* an Optional[int] field read from its JSON value
ParseOptionalInt(v) == IF v = "null" THEN None ELSE IF v = "1" THEN 1 ELSE NoSuchEntity

\* no update request has been handled since the process started
NoUpdateYet == [process |-> "started"]

\* Python truth value of an Optional[int]
Truthy(x) == x # None /\ x # 0

\* the names bound in the module namespace of routers/autopilot.py
ModuleNames ==
    {"APIRouter", "Depends", "BackgroundTasks", "AsyncSession", "select", "get_db",
     "Task", "Entity", "TaskStatus", "asyncio", "Optional", "BaseModel", "router",
     "AutopilotConfig", "current_config", "get_config", "update_config", "engine",
     "sessionmaker", "EntityType", "TaskLog", "selectinload", "manager",
     "create_notification", "async_session_factory", "run_autopilot_loop"}

VARIABLES
    current_config,     \* routers/autopilot.py: the module global
    task_status,        \* storage: Task.status
    task_assignees,     \* storage: Task.assignees, a list of entity ids
    task_logs,          \* storage: the TaskLog rows of each task, oldest first
    ap_pc,              \* where run_autopilot_loop is suspended
    query_manager_id,   \* the id bound into the manager query of the iteration
    manager_entity,     \* local of run_autopilot_loop
    tasks,              \* local of run_autopilot_loop: the rows the session loaded
    processed_tasks,    \* local of run_autopilot_loop
    ap_broadcasts,      \* the broadcast_to_project calls the iteration has made
    exc,                \* the exception the iteration raised, by the statement raising it
    prev_query_raised,  \* history: the previous iteration's task query raised
    quiet,              \* history: no request handler wrote a task since the iteration began
    logs_before,        \* history: the log rows each task had when the iteration began
    slept,              \* history: seconds the loop has slept since its last iteration
    last_update,        \* history: the body of the last config update request
    auto_pilot_enabled, \* routers/ui.py: the module global behind the UI toggle
    clock,              \* datetime.utcnow(): one tick per notification built
    active_connections, \* the registry: scope -> the connections subscribed to it
    ws_pc,              \* where each websocket handler is suspended
    ws_scope,           \* each handler's project_id argument (None: the global endpoint)
    peer_open,          \* whether the peer of each transport is still there
    frames,             \* text frames sent by the peer and not yet received
    data,               \* local of the handlers: the frame just received
    inbox,              \* what each peer has been sent, oldest first
    bcast               \* the broadcast_to_project call in progress

storage == <<task_status, task_assignees, task_logs>>
ap_locals == <<query_manager_id, manager_entity, tasks, processed_tasks>>
history == <<exc, prev_query_raised, quiet, logs_before>>
registry == <<active_connections, ws_pc, ws_scope, peer_open, frames, data, inbox, bcast>>
autopilot == <<current_config, task_status, task_assignees, task_logs, ap_pc,
               query_manager_id, manager_entity, tasks, processed_tasks, ap_broadcasts,
               exc, prev_query_raised, quiet, logs_before, slept, last_update>>
vars == <<current_config, task_status, task_assignees, task_logs, ap_pc,
          query_manager_id, manager_entity, tasks, processed_tasks, ap_broadcasts,
          exc, prev_query_raised, quiet, logs_before, slept, last_update,
          auto_pilot_enabled, clock, active_connections, ws_pc, ws_scope, peer_open, frames, data, inbox,
          bcast>>

\* ----------------------------------------------------------------- helpers
Range(s) == {s[i] : i \in 1..Len(s)}

RECURSIVE SelectSeq2(_, _)
\* the elements of sequence s whose index is in keep, in order
SelectSeq2(s, keep) ==
    IF s = <<>> THEN <<>>
    ELSE LET rest == SelectSeq2(Tail(s), {i - 1 : i \in keep \ {1}})
         IN  IF 1 \in keep THEN <<Head(s)>> \o rest ELSE rest

\* list.remove(x): drops the first occurrence
ListRemove(s, x) ==
    LET first == CHOOSE i \in 1..Len(s) : s[i] = x /\ \A j \in 1..(i-1) : s[j] # x
    IN  SelectSeq2(s, (1..Len(s)) \ {first})

\* the storage collaborator's AppendAssignee: a link row per (task, entity)
AppendAssignee(list, e) == IF e \in Range(list) THEN list ELSE Append(list, e)

\* f"Autopilot: Manager {manager_entity.name} self-assigned task '{task.title}'"
LogMsg(e, t) == <<"Autopilot: Manager ", name[e], " self-assigned task '", title[t], "'">>

\* TaskLog(task_id=task.id, message=log_msg, log_type="action")
TaskLog(t, msg) == [task_id |-> t, message |-> msg, log_type |-> "action"]

\* create_notification("task_update", {...}, task.project_id)
create_notification(t, msg, now) ==
    [type |-> "task_update", project_id |-> project_id[t],
     data |-> [task_id |-> t, type |-> "log", message |-> msg, log_type |-> "action",
               timestamp |-> now]]

\* select(Task).filter(Task.status == PENDING).options(selectinload(Task.assignees))
RECURSIVE PendingRows(_)
PendingRows(ts) ==
    IF ts = {} THEN <<>>
    ELSE LET t == CHOOSE x \in ts : \A y \in ts : x <= y
         IN  (IF task_status[t] = "pending"
              THEN <<[id |-> t, assignees |-> task_assignees[t]]>> ELSE <<>>)
             \o PendingRows(ts \ {t})

\* no broadcast_to_project call is in progress
NoBroadcast ==
    [active |-> FALSE, notification |-> <<>>, project_id |-> None, targets |-> {},
     todo |-> {}, failed |-> {}, raised |-> FALSE]

\* ----------------------------------------------------------------- Init
Init ==
    /\ current_config = [enabled |-> FALSE, manager_id |-> None]
    /\ task_status = [t \in Tasks |-> "pending"]
    /\ task_assignees = [t \in Tasks |-> <<>>]
    /\ task_logs = [t \in Tasks |-> <<>>]
    /\ ap_pc = "start"
    /\ query_manager_id = None
    /\ manager_entity = None
    /\ tasks = <<>>
    /\ processed_tasks = <<>>
    /\ ap_broadcasts = <<>>
    /\ exc = ""
    /\ prev_query_raised = FALSE
    /\ quiet = TRUE
    /\ logs_before = [t \in Tasks |-> 0]
    /\ slept = 0
    /\ last_update = NoUpdateYet
    /\ auto_pilot_enabled = FALSE
    /\ clock = 0
    /\ active_connections = [s \in Scopes |-> {}]
    /\ ws_pc = [c \in Conns |-> "new"]
    /\ ws_scope = [c \in Conns |-> None]
    /\ peer_open = [c \in Conns |-> TRUE]
    /\ frames = [c \in Conns |-> <<>>]
    /\ data = [c \in Conns |-> ""]
    /\ inbox = [c \in Conns |-> <<>>]
    /\ bcast = NoBroadcast

\* ------------------------------------------------------ configuration
MergeConfig(body) ==
    [enabled |-> IF "enabled" \in DOMAIN body
                 THEN body.enabled = "true" ELSE current_config.enabled,
     manager_id |-> IF "manager_id" \in DOMAIN body
                    THEN ParseOptionalInt(body.manager_id) ELSE current_config.manager_id]

\* FastAPI builds the handler's argument: AutopilotConfig(**body), where
\* enabled: bool = False and manager_id: Optional[int] = None
ParseConfig(body) ==
    [enabled |-> IF "enabled" \in DOMAIN body THEN body.enabled = "true" ELSE FALSE,
     manager_id |-> IF "manager_id" \in DOMAIN body
                    THEN ParseOptionalInt(body.manager_id) ELSE None]

\* GET /ui/autopilot/config: return current_config
get_config == current_config

\* POST /ui/autopilot/config: global current_config; current_config = config
update_config(config) ==
    /\ current_config' = config
    /\ UNCHANGED <<storage, ap_pc, ap_locals, ap_broadcasts, history, slept, clock,
                   registry, auto_pilot_enabled>>

\* a POST /ui/autopilot/config request with the given JSON body
PostConfig(body) ==
    /\ update_config(ParseConfig(body))
    /\ last_update' = body

\* ------------------------------------------------------ the autopilot loop
ConfigActiveIgnoringManager == current_config.enabled

ConfigActiveIfUiFlag ==
    auto_pilot_enabled /\ current_config.enabled /\ Truthy(current_config.manager_id)

\* if current_config.enabled and current_config.manager_id:
ConfigActive == current_config.enabled /\ Truthy(current_config.manager_id)

\* while True: try: if ...: async with async_session_factory() as session:
\* the manager query is built from current_config before the first suspension
AutopilotCheckConfig ==
    /\ ap_pc = "start"
    /\ IF ConfigActive
       THEN /\ query_manager_id' = current_config.manager_id
            /\ ap_pc' = "lookup"
       ELSE /\ query_manager_id' = query_manager_id
            /\ ap_pc' = "sleep"
    /\ slept' = 0
    /\ UNCHANGED <<current_config, storage, manager_entity, tasks, processed_tasks,
                   ap_broadcasts, history, last_update, clock, registry, auto_pilot_enabled>>

AnyEntity(id) == IF id \in Entities THEN id ELSE CHOOSE e \in Entities : TRUE

\* select(Entity).filter(Entity.id == id), then res_manager.scalar_one_or_none()
scalar_one_or_none(id) == IF id \in Entities THEN id ELSE None

\* res_manager = await session.execute(...); scalar_one_or_none(); if manager_entity:
AutopilotLookupManager ==
    /\ ap_pc = "lookup"
    /\ \E raises \in BOOLEAN :
         IF raises
         THEN /\ ap_pc' = "except"
              /\ exc' = "manager query"
              /\ manager_entity' = manager_entity
         ELSE /\ manager_entity' = scalar_one_or_none(query_manager_id)
              /\ ap_pc' = IF Truthy(manager_entity') THEN "query" ELSE "sleep"
              /\ exc' = exc
    /\ UNCHANGED <<current_config, storage, query_manager_id, tasks, processed_tasks,
                   ap_broadcasts, prev_query_raised, quiet, logs_before, slept,
                   last_update, clock, registry, auto_pilot_enabled>>

\* res_tasks = await session.execute(select(Task)...); tasks = res_tasks.scalars().all()
AutopilotQueryTasks ==
    /\ ap_pc = "query"
    /\ \E raises \in BOOLEAN :
         IF raises
         THEN /\ ap_pc' = "except"
              /\ exc' = "task query"
              /\ tasks' = tasks
         ELSE /\ tasks' = PendingRows(Tasks)
              /\ ap_pc' = "assign"
              /\ exc' = exc
    /\ UNCHANGED <<current_config, storage, query_manager_id, manager_entity,
                   processed_tasks, ap_broadcasts, prev_query_raised, quiet, logs_before,
                   slept, last_update, clock, registry, auto_pilot_enabled>>

EveryRow(rows) == rows

UnassignedIfStillEnabled(rows) ==
    IF current_config.enabled THEN SelectSeq(rows, LAMBDA r : r.assignees = <<>>) ELSE <<>>

UnassignedOrSingle(rows) == SelectSeq(rows, LAMBDA r : Len(r.assignees) <= 1)

FirstUnassignedOnly(rows) ==
    LET todo == SelectSeq(rows, LAMBDA r : r.assignees = <<>>)
    IN  IF todo = <<>> THEN <<>> ELSE <<todo[1]>>

\* for task in tasks: if not task.assignees: -- the rows the loop acts on
Unassigned(rows) == SelectSeq(rows, LAMBDA r : r.assignees = <<>>)

\* task.assignees.append(manager_entity): the entity the loop appends
Assignee == manager_entity

LogsNotFlushed(ids) == task_logs

\* session.add(log) for each processed task, written by session.commit()
CommittedLogs(ids) ==
    [t \in Tasks |->
        IF t \in ids THEN Append(task_logs[t], TaskLog(t, LogMsg(Assignee, t)))
        ELSE task_logs[t]]

AssigneesReplaced(ids) ==
    [t \in Tasks |-> IF t \in ids THEN <<Assignee>> ELSE task_assignees[t]]

FirstAssigneeOnly(ids) ==
    [t \in Tasks |->
        IF t \in ids /\ \A u \in ids : t <= u
        THEN AppendAssignee(task_assignees[t], Assignee)
        ELSE task_assignees[t]]

\* task.assignees.append(manager_entity) for each processed task, written by commit()
CommittedAssignees(ids) ==
    [t \in Tasks |->
        IF t \in ids THEN AppendAssignee(task_assignees[t], Assignee)
        ELSE task_assignees[t]]

\* processed_tasks = []; for task in tasks: if not task.assignees: ...
\* if processed_tasks: await session.commit()
\* A commit that raises leaves the `async with` block, which discards the session.
\* The loaded list is not read again after the loop over it.
AutopilotAssign ==
    /\ ap_pc = "assign"
    /\ LET todo == Unassigned(tasks)
           ids  == {todo[i].id : i \in 1..Len(todo)}
       IN  IF todo = <<>>
           THEN /\ ap_pc' = "sleep"
                /\ processed_tasks' = <<>>
                /\ UNCHANGED <<storage, exc>>
           ELSE \E raises \in BOOLEAN :
                  /\ processed_tasks' =
                        [i \in 1..Len(todo) |->
                            [task |-> todo[i].id, msg |-> LogMsg(Assignee, todo[i].id)]]
                  /\ IF raises
                     THEN /\ ap_pc' = "except"
                          /\ exc' = "commit"
                          /\ UNCHANGED storage
                     ELSE /\ task_assignees' = CommittedAssignees(ids)
                          /\ task_logs' = CommittedLogs(ids)
                          /\ task_status' = task_status
                          /\ ap_pc' = "notify"
                          /\ exc' = exc
    /\ tasks' = <<>>
    /\ UNCHANGED <<current_config, query_manager_id, manager_entity, ap_broadcasts,
                   prev_query_raised, quiet, logs_before, slept, last_update, clock,
                   registry, auto_pilot_enabled>>

\* for task, msg in processed_tasks:
\*     notification = create_notification("task_update", {...,
\*         "timestamp": datetime.utcnow().isoformat()}, task.project_id)
\*     await manager.broadcast_to_project(notification, task.project_id)
\* The dict display is evaluated before the call. The name datetime is looked up in
\* the module namespace, and a name that is not there raises NameError, which the
\* loop's `except Exception` catches.
AutopilotNotify ==
    /\ ap_pc = "notify"
    /\ IF "datetime" \in ModuleNames
       THEN LET k == Len(ap_broadcasts) + 1
                t == processed_tasks[k].task
            IN  /\ ap_broadcasts' =
                      Append(ap_broadcasts,
                             [notification |->
                                  create_notification(t, processed_tasks[k].msg, clock),
                              project_id |-> project_id[t]])
                /\ clock' = clock + 1
                /\ ap_pc' = IF k = Len(processed_tasks) THEN "sleep" ELSE "notify"
                /\ exc' = exc
       ELSE /\ ap_pc' = "except"
            /\ exc' = "NameError"
            /\ UNCHANGED <<ap_broadcasts, clock>>
    /\ UNCHANGED <<current_config, storage, ap_locals, prev_query_raised, quiet,
                   logs_before, slept, last_update, registry, auto_pilot_enabled>>

\* await asyncio.sleep(5) at the end of the try block, then the next `while` pass
AutopilotSleep ==
    /\ ap_pc = "sleep"
    /\ ap_pc' = "start"
    /\ slept' = slept + SleepSeconds
    /\ query_manager_id' = None
    /\ manager_entity' = None
    /\ tasks' = <<>>
    /\ processed_tasks' = <<>>
    /\ ap_broadcasts' = <<>>
    /\ exc' = ""
    /\ prev_query_raised' = FALSE
    /\ quiet' = TRUE
    /\ logs_before' = [t \in Tasks |-> Len(task_logs[t])]
    /\ UNCHANGED <<current_config, storage, last_update, clock, registry, auto_pilot_enabled>>

SleepTwice == ErrorSleepSeconds + ErrorSleepSeconds

\* the seconds the except clause sleeps
ErrorBackoff == ErrorSleepSeconds

CaughtUnlessNameError(e) == e # "NameError"

\* `except Exception`: what the statements of the try block raise (the storage
\* driver's errors, NameError) are all subclasses of Exception
Caught(e) == TRUE

\* except Exception as e: print(...); await asyncio.sleep(5), then the next pass.
\* An exception the clause does not catch ends the coroutine.
AutopilotErrorSleep ==
    /\ ap_pc = "except"
    /\ ap_pc' = IF Caught(exc) THEN "start" ELSE "ended"
    /\ slept' = IF Caught(exc) THEN slept + ErrorBackoff ELSE slept
    /\ query_manager_id' = None
    /\ manager_entity' = None
    /\ tasks' = <<>>
    /\ processed_tasks' = <<>>
    /\ ap_broadcasts' = <<>>
    /\ exc' = ""
    /\ prev_query_raised' = (exc = "task query")
    /\ quiet' = TRUE
    /\ logs_before' = [t \in Tasks |-> Len(task_logs[t])]
    /\ UNCHANGED <<current_config, storage, last_update, clock, registry, auto_pilot_enabled>>

\* ------------------------------------------------------ request handlers
AlwaysAppend(task_id, entity_id) == TRUE

\* `entity not in task.assignees`
NotYetAssigned(task_id, entity_id) == entity_id \notin Range(task_assignees[task_id])

\* POST /tasks/{task_id}/assign?entity_id=
assign_task(task_id, entity_id) ==
    /\ IF entity_id \in Entities /\ NotYetAssigned(task_id, entity_id)
       THEN task_assignees' =
                [task_assignees EXCEPT ![task_id] = Append(@, entity_id)]
       ELSE task_assignees' = task_assignees
    /\ quiet' = (quiet /\ task_assignees' = task_assignees)
    /\ UNCHANGED <<current_config, task_status, task_logs, ap_pc, ap_locals,
                   ap_broadcasts, exc, prev_query_raised, logs_before, slept,
                   last_update, clock, registry, auto_pilot_enabled>>

\* POST /ui/tasks/{task_id}/assign with body {entity_id, action}
ui_assign_task(task_id, entity_id, action) ==
    /\ action = "unassign" =>
          Len(task_logs[task_id]) < MaxLogs \/ Len(task_assignees[task_id]) > 1
    /\ IF entity_id \notin Entities
       THEN task_assignees' = task_assignees
       ELSE IF action = "assign" /\ NotYetAssigned(task_id, entity_id)
       THEN task_assignees' =
                [task_assignees EXCEPT ![task_id] = Append(@, entity_id)]
       ELSE IF action = "unassign" /\ ~NotYetAssigned(task_id, entity_id)
       THEN task_assignees' =
                [task_assignees EXCEPT ![task_id] = ListRemove(@, entity_id)]
       ELSE task_assignees' = task_assignees
    /\ quiet' = (quiet /\ task_assignees' = task_assignees)
    /\ UNCHANGED <<current_config, task_status, task_logs, ap_pc, ap_locals,
                   ap_broadcasts, exc, prev_query_raised, logs_before, slept,
                   last_update, clock, registry, auto_pilot_enabled>>

\* PATCH /ui/tasks/{task_id}/move with body {stage_id, status}
ui_move_task(task_id, new_status) ==
    /\ task_status' = [task_status EXCEPT ![task_id] = new_status]
    /\ quiet' = (quiet /\ task_status' = task_status)
    /\ UNCHANGED <<current_config, task_assignees, task_logs, ap_pc, ap_locals,
                   ap_broadcasts, exc, prev_query_raised, logs_before, slept,
                   last_update, clock, registry, auto_pilot_enabled>>

\* POST /ui/api/settings/auto-pilot: global auto_pilot_enabled
\* auto_pilot_enabled = body.get("enabled", False)
ui_toggle_auto_pilot(enabled) ==
    /\ auto_pilot_enabled' = enabled
    /\ UNCHANGED <<autopilot, clock, registry>>

\* ------------------------------------------------------ the connection registry
ConnectMirrored(reg, c, scope) ==
    [s \in Scopes |-> IF s \in {scope, None} THEN reg[s] \cup {c} ELSE reg[s]]

\* manager.connect(websocket, project_id): the connection joins the scope's set
Connect(reg, c, scope) == [reg EXCEPT ![scope] = @ \cup {c}]

DisconnectOrRegister(reg, c, scope) ==
    [reg EXCEPT ![scope] = IF c \in @ THEN @ \ {c} ELSE @ \cup {c}]

\* manager.disconnect(websocket, project_id): the connection leaves the scope's set
Disconnect(reg, c, scope) == [reg EXCEPT ![scope] = @ \ {c}]

\* manager.send_personal_message(message, websocket) to a peer that is there
Delivered(c, message) == [inbox EXCEPT ![c] = Append(@, message)]

\* manager.broadcast_to_project(notification, project_id): the call starts with the
\* set subscribed to the project at that moment; the sends follow one by one
broadcast_to_project(notification, project) ==
    [active |-> TRUE, notification |-> notification, project_id |-> project,
     targets |-> active_connections[project], todo |-> active_connections[project],
     failed |-> {}, raised |-> FALSE]

\* ------------------------------------------------------ the websocket handlers
\* {"type": "connection", "message": f"Connected to project {project_id}"}
\* {"type": "connection", "message": "Connected to global updates"}
Greeting(scope) ==
    [type |-> "connection",
     message |-> IF scope = None THEN <<"Connected to global updates">>
                 ELSE <<"Connected to project ", Str[scope]>>]

EchoFixedText(text) == [type |-> "echo", message |-> "ping"]

\* {"type": "echo", "message": data}
Echo(text) == [type |-> "echo", message |-> text]

HandshakeOrReconnect(c) == ws_pc[c] \in {"new", "closed"}

\* the server runs the endpoint function once for each handshake, with a WebSocket
\* object of its own
Handshake(c) == ws_pc[c] = "new"

LockHeldWhileSending == bcast.active

\* the lock a registry operation would wait for: broadcast_to_project holds none
\* while its sends are under way
LockHeld == FALSE

\* the handler is between its connect and its disconnect
Connected(c) == ws_pc[c] \in {"greet", "recv", "echo"}

HandlerDisconnectGlobal(c) == Disconnect(active_connections, c, None)

\* except WebSocketDisconnect / except Exception: manager.disconnect(websocket, project_id)
\* and, in the global handler, manager.disconnect(websocket)
HandlerDisconnect(c) == Disconnect(active_connections, c, ws_scope[c])

HandlerReturns(c) ==
    /\ active_connections' = active_connections
    /\ ws_pc' = [ws_pc EXCEPT ![c] = "closed"]

\* the except clauses: the handler disconnects and returns
HandlerExcept(c) ==
    /\ ~LockHeld
    /\ active_connections' = HandlerDisconnect(c)
    /\ ws_pc' = [ws_pc EXCEPT ![c] = "closed"]

ConnectWithoutGreeting(c, project) ==
    /\ Handshake(c)
    /\ ~LockHeld
    /\ active_connections' = Connect(active_connections, c, project)
    /\ ws_scope' = [ws_scope EXCEPT ![c] = project]
    /\ ws_pc' = [ws_pc EXCEPT ![c] = "recv"]
    /\ UNCHANGED <<autopilot, auto_pilot_enabled, clock, peer_open, frames, data, inbox, bcast>>

\* @router.websocket("/ws/projects/{project_id}"): await manager.connect(websocket, project_id)
websocket_project_updates(c, project) ==
    /\ Handshake(c)
    /\ ~LockHeld
    /\ active_connections' = Connect(active_connections, c, project)
    /\ ws_scope' = [ws_scope EXCEPT ![c] = project]
    /\ ws_pc' = [ws_pc EXCEPT ![c] = "greet"]
    /\ UNCHANGED <<autopilot, auto_pilot_enabled, clock, peer_open, frames, data, inbox, bcast>>

\* @router.websocket("/ws"): await manager.connect(websocket)
websocket_global_updates(c) ==
    /\ Handshake(c)
    /\ ~LockHeld
    /\ active_connections' = Connect(active_connections, c, None)
    /\ ws_scope' = [ws_scope EXCEPT ![c] = None]
    /\ ws_pc' = [ws_pc EXCEPT ![c] = "greet"]
    /\ UNCHANGED <<autopilot, auto_pilot_enabled, clock, peer_open, frames, data, inbox, bcast>>

\* try: await manager.send_personal_message({"type": "connection", ...}, websocket)
SendGreeting(c) ==
    /\ ws_pc[c] = "greet"
    /\ IF peer_open[c]
       THEN /\ inbox' = Delivered(c, Greeting(ws_scope[c]))
            /\ ws_pc' = [ws_pc EXCEPT ![c] = "recv"]
            /\ UNCHANGED active_connections
       ELSE /\ HandlerExcept(c)
            /\ UNCHANGED inbox
    /\ UNCHANGED <<autopilot, auto_pilot_enabled, clock, ws_scope, peer_open, frames, data, bcast>>

\* while True: data = await websocket.receive_text()
\* queued frames are handed over first; a closed transport raises WebSocketDisconnect
ReceiveText(c) ==
    /\ ws_pc[c] = "recv"
    /\ frames[c] # <<>> \/ ~peer_open[c]
    /\ IF frames[c] # <<>>
       THEN /\ data' = [data EXCEPT ![c] = Head(frames[c])]
            /\ frames' = [frames EXCEPT ![c] = Tail(@)]
            /\ ws_pc' = [ws_pc EXCEPT ![c] = "echo"]
            /\ UNCHANGED active_connections
       ELSE /\ HandlerExcept(c)
            /\ UNCHANGED <<data, frames>>
    /\ UNCHANGED <<autopilot, auto_pilot_enabled, clock, ws_scope, peer_open, inbox, bcast>>

\* await manager.send_personal_message({"type": "echo", "message": data}, websocket)
\* data is not read again before the next receive_text() assigns it
SendEcho(c) ==
    /\ ws_pc[c] = "echo"
    /\ IF peer_open[c]
       THEN /\ inbox' = Delivered(c, Echo(data[c]))
            /\ ws_pc' = [ws_pc EXCEPT ![c] = "recv"]
            /\ UNCHANGED active_connections
       ELSE /\ HandlerExcept(c)
            /\ UNCHANGED inbox
    /\ data' = [data EXCEPT ![c] = ""]
    /\ UNCHANGED <<autopilot, auto_pilot_enabled, clock, ws_scope, peer_open, frames, bcast>>

\* ------------------------------------------------------ the peers
\* the text frames the peer of c has sent so far
FramesSent(c) ==
    Len(frames[c]) + (IF ws_pc[c] = "echo" THEN 1 ELSE 0)
    + Cardinality({i \in 1..Len(inbox[c]) : inbox[c][i].type = "echo"})

RECURSIVE SumFramesSent(_)
SumFramesSent(cs) ==
    IF cs = {} THEN 0
    ELSE LET c == CHOOSE x \in cs : TRUE IN FramesSent(c) + SumFramesSent(cs \ {c})

\* the text frames all peers have sent so far
FramesSentByAll == SumFramesSent(Conns)

\* the browser sends a text frame
PeerSend(c, text) ==
    /\ Connected(c) /\ peer_open[c]
    /\ FramesSentByAll < MaxFrames
    /\ frames' = [frames EXCEPT ![c] = Append(@, text)]
    /\ UNCHANGED <<autopilot, auto_pilot_enabled, clock, active_connections, ws_pc, ws_scope, peer_open,
                   data, inbox, bcast>>

\* the browser goes away
PeerClose(c) ==
    /\ Connected(c) /\ peer_open[c]
    /\ peer_open' = [peer_open EXCEPT ![c] = FALSE]
    /\ UNCHANGED <<autopilot, auto_pilot_enabled, clock, active_connections, ws_pc, ws_scope, frames, data,
                   inbox, bcast>>

\* ------------------------------------------------------ broadcasting
BroadcastTargetOther(t) == CHOOSE p \in Projects : p # project_id[t]

\* the project the notification of task t is broadcast to: task.project_id
BroadcastTarget(t) == project_id[t]

\* notification = create_notification("task_update", {...}, task.project_id)
\* await manager.broadcast_to_project(notification, task.project_id) -- the call
BroadcastCall(t) ==
    /\ ~bcast.active
    /\ clock < MaxBroadcasts
    /\ bcast' = broadcast_to_project(create_notification(t, LogMsg(1, t), clock),
                                     BroadcastTarget(t))
    /\ clock' = clock + 1
    /\ UNCHANGED <<autopilot, auto_pilot_enabled, active_connections, ws_pc, ws_scope, peer_open, frames,
                   data, inbox>>

SendOrAbort(c) ==
    IF peer_open[c]
    THEN /\ inbox' = Delivered(c, bcast.notification)
         /\ bcast' = [bcast EXCEPT !.todo = @ \ {c}]
    ELSE /\ inbox' = inbox
         /\ bcast' = [bcast EXCEPT !.todo = {}, !.failed = @ \cup {c}, !.raised = TRUE]

SendThenStopOnChurn(c) ==
    LET rest == IF active_connections[bcast.project_id] = bcast.targets
                THEN bcast.todo \ {c} ELSE {}
    IN  IF peer_open[c]
        THEN /\ inbox' = Delivered(c, bcast.notification)
             /\ bcast' = [bcast EXCEPT !.todo = rest]
        ELSE /\ inbox' = inbox
             /\ bcast' = [bcast EXCEPT !.todo = rest, !.failed = @ \cup {c}]

\* one send of the broadcast: a peer that is gone is skipped, the failure swallowed
SendOrSkip(c) ==
    IF peer_open[c]
    THEN /\ inbox' = Delivered(c, bcast.notification)
         /\ bcast' = [bcast EXCEPT !.todo = @ \ {c}]
    ELSE /\ inbox' = inbox
         /\ bcast' = [bcast EXCEPT !.todo = @ \ {c}, !.failed = @ \cup {c}]

\* the broadcast sends to the next connection of the set it started with
BroadcastSend(c) ==
    /\ bcast.active
    /\ c \in bcast.todo
    /\ SendOrSkip(c)
    /\ UNCHANGED <<autopilot, auto_pilot_enabled, clock, active_connections, ws_pc, ws_scope, peer_open,
                   frames, data>>

\* broadcast_to_project returns to its caller
BroadcastReturn ==
    /\ bcast.active
    /\ bcast.todo = {}
    /\ bcast' = NoBroadcast
    /\ UNCHANGED <<autopilot, auto_pilot_enabled, clock, active_connections, ws_pc, ws_scope, peer_open,
                   frames, data, inbox>>

\* ------------------------------------------------------------------ Next
\* The loop, the configuration endpoint and the request handlers that write the rows
\* the loop reads. The loop's only call into the registry is the one AutopilotNotify
\* does not reach, so the websocket side (RegistrySpec) runs independently of it.
Next ==
    \/ \E body \in Bodies : PostConfig(body)
    \/ AutopilotCheckConfig
    \/ AutopilotLookupManager
    \/ AutopilotQueryTasks
    \/ AutopilotAssign
    \/ AutopilotNotify
    \/ AutopilotSleep
    \/ AutopilotErrorSleep
    \/ \E t \in Tasks, e \in Entities \cup {NoSuchEntity} : assign_task(t, e)
    \/ \E t \in Tasks, e \in Entities, a \in {"assign", "unassign"} :
          ui_assign_task(t, e, a)
    \/ \E t \in Tasks, s \in Statuses : ui_move_task(t, s)

Spec == Init /\ [][Next]_vars

\* the steps of run_autopilot_loop
AutopilotStep ==
    \/ AutopilotCheckConfig
    \/ AutopilotLookupManager
    \/ AutopilotQueryTasks
    \/ AutopilotAssign
    \/ AutopilotNotify
    \/ AutopilotSleep
    \/ AutopilotErrorSleep

\* asyncio.create_task(run_autopilot_loop()) in the lifespan: the event loop resumes
\* the coroutine whenever what it awaits is done; a sleep ends, a storage call
\* returns or raises
FairSpec == Spec /\ WF_vars(AutopilotStep)

\* the manager lookup returns without raising (result.scalar_one_or_none() reached)
LookupReturns == AutopilotLookupManager /\ exc' = exc

\* the task query returns without raising
QueryReturns == AutopilotQueryTasks /\ exc' = exc

\* await session.commit() returns without raising
CommitReturns == AutopilotAssign /\ ap_pc' = "notify"

\* PUT bodies that set both fields of the config
FullBodies == {body \in Bodies : DOMAIN body = Fields}

\* The loop, the configuration endpoint called with both fields, and the UI handlers
\* that assign, unassign and move the tasks the loop reads.
AssignmentNext ==
    \/ \E body \in FullBodies : PostConfig(body)
    \/ AutopilotCheckConfig
    \/ AutopilotLookupManager
    \/ AutopilotQueryTasks
    \/ AutopilotAssign
    \/ AutopilotNotify
    \/ AutopilotSleep
    \/ AutopilotErrorSleep
    \/ \E t \in Tasks, e \in Entities, a \in {"assign", "unassign"} :
          ui_assign_task(t, e, a)
    \/ \E t \in Tasks, s \in Statuses : ui_move_task(t, s)

\* The loop task keeps running, and storage does not fail for ever: each of the loop's
\* storage calls, made again and again, eventually returns.
LiveStorageSpec ==
    /\ Init /\ [][AssignmentNext]_vars
    /\ WF_vars(AutopilotStep)
    /\ SF_vars(LookupReturns)
    /\ SF_vars(QueryReturns)
    /\ SF_vars(CommitReturns)

\* The two settings cells and the loop that reads one of them.
SettingsNext ==
    \/ \E body \in Bodies : PostConfig(body)
    \/ \E enabled \in BOOLEAN : ui_toggle_auto_pilot(enabled)
    \/ AutopilotCheckConfig
    \/ AutopilotLookupManager
    \/ AutopilotQueryTasks
    \/ AutopilotAssign
    \/ AutopilotNotify
    \/ AutopilotSleep
    \/ AutopilotErrorSleep

SettingsSpec == Init /\ [][SettingsNext]_vars

\* The websocket handlers, their peers, and broadcast_to_project called the way
\* run_autopilot_loop calls it, for a task of any project.
RegistryNext ==
    \/ \E c \in Conns, p \in Projects : websocket_project_updates(c, p)
    \/ \E c \in Conns : websocket_global_updates(c)
    \/ \E c \in Conns : SendGreeting(c)
    \/ \E c \in Conns : ReceiveText(c)
    \/ \E c \in Conns : SendEcho(c)
    \/ \E c \in Conns, text \in Texts : PeerSend(c, text)
    \/ \E c \in Conns : PeerClose(c)
    \/ \E t \in Tasks : BroadcastCall(t)
    \/ \E c \in Conns : BroadcastSend(c)
    \/ BroadcastReturn

RegistrySpec == Init /\ [][RegistryNext]_vars

\* the steps of the websocket handler of connection c
HandlerStep(c) == SendGreeting(c) \/ ReceiveText(c) \/ SendEcho(c)

\* each handler is a coroutine the event loop resumes when its await is done: a send
\* returns or raises, receive_text returns a frame or raises once the transport closed
FairRegistrySpec == RegistrySpec /\ \A c \in Conns : WF_vars(HandlerStep(c))

\* ================================================================ claims
\* the peer of c has been sent message m
Has(c, m) == \E i \in 1..Len(inbox[c]) : inbox[c][i] = m

\* broadcast_to_project has made its last send and is about to return
BroadcastDone == bcast.active /\ bcast.todo = {}

\* C1: the set the registry holds for each scope (each project id, and the global
\* scope) is exactly the set of connections whose handler has connected to that scope
\* and has not disconnected since: no disconnected connection remains, none is missing.
C1_SubscribersExact ==
    \A s \in Scopes :
        active_connections[s] = {c \in Conns : Connected(c) /\ ws_scope[c] = s}

\* C1 witness: a handler has disconnected from a scope another connection is still in
C1_Witness ==
    \E c, d \in Conns :
        /\ ws_pc[c] = "closed" /\ Connected(d)
        /\ ws_scope[c] = ws_scope[d]
        /\ active_connections[ws_scope[d]] = {d}

\* C2: a notification broadcast for project P is in the inbox only of connections
\* admitted under P, never of one admitted under another project or the global
\* scope; and when the broadcast is done every connection that was registered under
\* P at the call was sent to: it has the notification or its send failed.
C2_BroadcastScoped ==
    /\ \A c \in Conns : \A i \in 1..Len(inbox[c]) :
          inbox[c][i].type = "task_update" =>
              /\ ws_scope[c] = inbox[c][i].project_id
              /\ ws_scope[c] # None
    /\ BroadcastDone =>
          /\ bcast.targets = {c \in Conns : Has(c, bcast.notification)} \cup bcast.failed
          /\ \A c \in bcast.targets : ws_scope[c] = bcast.project_id

\* C2 witness: a broadcast is done, a subscriber of its project has the notification
\* and a connection registered under another scope has not
C2_Witness ==
    /\ BroadcastDone
    /\ \E c, d \in Conns :
          /\ Has(c, bcast.notification)
          /\ Connected(d) /\ peer_open[d] /\ ws_scope[d] # bcast.project_id
          /\ ~Has(d, bcast.notification)

\* C3: a send that fails during a broadcast is not raised to the caller, and when the
\* broadcast is done every connection of the scope whose peer is there has the
\* notification, whichever subset of the scope's peers is gone.
C3_DeadPeerIsolated ==
    /\ ~bcast.raised
    /\ BroadcastDone =>
          \A c \in bcast.targets : peer_open[c] => Has(c, bcast.notification)

\* C3 witness: a broadcast is done in which one send failed and another connection
\* of the same scope has the notification
C3_Witness ==
    /\ BroadcastDone
    /\ bcast.failed # {}
    /\ \E c \in bcast.targets \ bcast.failed : Has(c, bcast.notification)

\* the iteration is over: the loop is at one of its two sleeps
IterationEnded == ap_pc \in {"sleep", "except"}

\* the ids of the tasks the iteration put in processed_tasks
ProcessedIds == {processed_tasks[i].task : i \in 1..Len(processed_tasks)}

\* the last row of a task's log
LastLog(t) == task_logs[t][Len(task_logs[t])]

\* C4: an iteration with an enabled config, an existing manager and exactly one pending
\* task read with no assignee ends (no storage call failing, no request handler
\* writing meanwhile) with that task assigned to the manager alone, exactly one new
\* log row for it naming the task's title and the manager's name, and exactly one
\* broadcast of a task_update/log notification to that task's project.
C4_OneIteration ==
    (IterationEnded /\ Len(processed_tasks) = 1 /\ exc # "commit" /\ quiet) =>
        LET t == processed_tasks[1].task
        IN  /\ task_assignees[t] = <<manager_entity>>
            /\ Len(task_logs[t]) = logs_before[t] + 1
            /\ LastLog(t).message =
                  <<"Autopilot: Manager ", name[manager_entity],
                    " self-assigned task '", title[t], "'">>
            /\ Len(ap_broadcasts) = 1
            /\ ap_broadcasts[1].notification.type = "task_update"
            /\ ap_broadcasts[1].notification.data.type = "log"
            /\ ap_broadcasts[1].notification.data.task_id = t
            /\ ap_broadcasts[1].project_id = project_id[t]

\* C5: the loop is in its notification loop, or has handed a notification to the
\* broadcaster, only for tasks whose assignment and log row the commit has already
\* written to storage.
C5_CommitBeforeBroadcast ==
    /\ ap_pc = "notify" =>
          \A i \in 1..Len(processed_tasks) :
              LET p == processed_tasks[i]
              IN  /\ Len(task_logs[p.task]) = logs_before[p.task] + 1
                  /\ LastLog(p.task) = TaskLog(p.task, p.msg)
                  /\ quiet => manager_entity \in Range(task_assignees[p.task])
    /\ \A k \in 1..Len(ap_broadcasts) :
          LET d == ap_broadcasts[k].notification.data
          IN  TaskLog(d.task_id, d.message) \in Range(task_logs[d.task_id])

\* C5 witness: the commit has returned and the notification loop is entered for two
\* assigned tasks
C5_Witness == ap_pc = "notify" /\ Len(processed_tasks) = 2

\* C6: the step of an iteration that reads a config with enabled false, or with no
\* manager_id, goes to the sleep and changes no stored row and makes no broadcast,
\* whatever tasks are pending.
C6_DisabledIsNoOp ==
    [][(/\ ap_pc = "start" /\ ap_pc' # "start"
        /\ (~current_config.enabled \/ current_config.manager_id = None))
       => (/\ ap_pc' = "sleep"
           /\ UNCHANGED <<task_status, task_assignees, task_logs>>
           /\ ap_broadcasts' = <<>>)]_vars

\* C6 witness: the loop took the fast path to its sleep with the config enabled but
\* without a manager, while a pending task had no assignee
C6_Witness ==
    /\ ap_pc = "sleep" /\ query_manager_id = None
    /\ current_config.enabled /\ current_config.manager_id = None
    /\ \E t \in Tasks : task_status[t] = "pending" /\ task_assignees[t] = <<>>

\* C7: in the step that assigns and commits, a task that was read with at least one
\* assignee keeps its assignee list and its log rows and is not put in
\* processed_tasks; and every notification broadcast is for a processed task.
C7_AssignedLeftAlone ==
    [][/\ (ap_pc = "assign" /\ ap_pc' # "assign") =>
             \A i \in 1..Len(tasks) :
                 tasks[i].assignees # <<>> =>
                     /\ task_assignees'[tasks[i].id] = task_assignees[tasks[i].id]
                     /\ task_logs'[tasks[i].id] = task_logs[tasks[i].id]
                     /\ \A j \in 1..Len(processed_tasks') :
                            processed_tasks'[j].task # tasks[i].id
       /\ \A k \in 1..Len(ap_broadcasts') :
             \E j \in 1..Len(processed_tasks') :
                 processed_tasks'[j].task = ap_broadcasts'[k].notification.data.task_id
      ]_vars

\* C7 witness: the iteration has committed an assignment while another pending task,
\* which had an assignee throughout, has no new log row and is not processed
C7_Witness ==
    /\ ap_pc = "notify" /\ quiet
    /\ \E t \in Tasks :
          /\ task_status[t] = "pending" /\ task_assignees[t] # <<>>
          /\ t \notin ProcessedIds
          /\ Len(task_logs[t]) = logs_before[t]

\* C8: the iteration after one whose task query raised runs as a normal iteration:
\* with storage working it assigns the unassigned pending tasks it read, logs them
\* and broadcasts one notification for each.
C8_NextIterationNormal ==
    (/\ prev_query_raised /\ IterationEnded
     /\ processed_tasks # <<>>
     /\ exc \notin {"manager query", "task query", "commit"}) =>
        /\ \A t \in ProcessedIds : Len(task_logs[t]) = logs_before[t] + 1
        /\ Len(ap_broadcasts) = Len(processed_tasks)

\* no entity is twice in a task's assignee list
NoDuplicateAssignee ==
    \A t \in Tasks : \A i, j \in 1..Len(task_assignees[t]) :
        i # j => task_assignees[t][i] # task_assignees[t][j]

\* C9: no step leaves an entity twice in a task's assignee list (assigning an entity
\* that is already assigned changes nothing); and a log row is written for a task
\* only by the loop, one row, and only when it read the task with no assignee, so a
\* repeated assignment writes no further log row.
C9_AssignIdempotent ==
    [][/\ NoDuplicateAssignee'
       /\ \A t \in Tasks :
             task_logs'[t] # task_logs[t] =>
                 /\ ap_pc = "assign"
                 /\ \E i \in 1..Len(tasks) : tasks[i].id = t /\ tasks[i].assignees = <<>>
                 /\ Len(task_logs'[t]) = Len(task_logs[t]) + 1
      ]_vars

\* C9 witness: an iteration has run to its sleep over a pending task that an earlier
\* iteration assigned to the manager: the manager is there once, with the one log row
C9_Witness ==
    /\ ap_pc = "sleep" /\ manager_entity # None /\ quiet
    /\ \E t \in Tasks :
          /\ task_status[t] = "pending"
          /\ task_assignees[t] = <<manager_entity>>
          /\ Len(task_logs[t]) = 1 /\ logs_before[t] = 1

\* C10: the manager id of an iteration is the one in the config when the iteration
\* began; the manager looked up is that one; and the assignment step acts on the rows
\* read unassigned, for that manager, whatever the config has become meanwhile.
C10_ConfigReadOnce ==
    [][/\ (ap_pc = "start" /\ ap_pc' = "lookup") =>
             /\ current_config.enabled
             /\ query_manager_id' = current_config.manager_id
       /\ (ap_pc \notin {"start", "sleep", "except"}) =>
             query_manager_id' = query_manager_id
       /\ (ap_pc = "lookup" /\ ap_pc' = "query") => manager_entity' = query_manager_id
       /\ (ap_pc = "assign" /\ \E i \in 1..Len(tasks) : tasks[i].assignees = <<>>) =>
             /\ ap_pc' \in {"assign", "notify", "except"}
             /\ ap_pc' = "notify" =>
                   \A i \in 1..Len(tasks) :
                       tasks[i].assignees = <<>> =>
                           /\ query_manager_id \in Range(task_assignees'[tasks[i].id])
                           /\ task_logs'[tasks[i].id] =
                                 Append(task_logs[tasks[i].id],
                                        TaskLog(tasks[i].id,
                                                LogMsg(query_manager_id, tasks[i].id)))
      ]_vars

\* C10 witness: the notification loop is entered for an assignment made while the
\* config no longer is the one the iteration began with
C10_Witness ==
    /\ ap_pc = "notify"
    /\ ~current_config.enabled \/ current_config.manager_id # query_manager_id
    /\ \A t \in ProcessedIds : query_manager_id \in Range(task_assignees[t])

\* C11: the loop comes to the start of an iteration only out of one of its two sleeps,
\* having slept the fixed interval exactly once since the iteration before ended,
\* whether that iteration completed, took the disabled fast path or raised; while an
\* iteration runs no sleep is counted.
C11_OneSleepBetweenIterations ==
    [][/\ (ap_pc # "start" /\ ap_pc' = "start") =>
             /\ ap_pc \in {"sleep", "except"}
             /\ slept = 0
             /\ slept' = SleepSeconds
       /\ (ap_pc = "start" /\ ap_pc' # "start") => slept' = 0
       /\ ap_pc' # "start" => slept' = 0
      ]_vars

\* C11 witness: the loop is back at the start of an iteration after the sleep of the
\* except clause
C11_Witness == ap_pc = "start" /\ prev_query_raised /\ slept = SleepSeconds

\* C12: the coroutine of the loop never ends, and it starts an iteration again and
\* again: from every reachable state, after any storage failure, missing manager,
\* config update or exception in the notification step, a further iteration begins.
C12_LoopNeverEnds ==
    /\ [][ap_pc' # "ended"]_vars
    /\ []<><<AutopilotCheckConfig>>_vars

\* C12 witness: an iteration is running after the one before it raised
C12_Witness == ap_pc = "lookup" /\ prev_query_raised

\* the connection is in no scope's set
Unregistered(c) == \A s \in Scopes : c \notin active_connections[s]

C14_EventuallyUnregistered ==
    /\ [][\A c \in Conns :
             /\ ws_pc'[c] = "closed" => Unregistered(c)'
             /\ ws_pc[c] = "closed" => ws_pc'[c] = "closed"]_vars
    /\ \A c \in Conns :
          (Connected(c) /\ ~peer_open[c]) ~> (ws_pc[c] = "closed" /\ Unregistered(c))

\* C14 witness: the send of the greeting failed and the handler has unregistered the
\* connection
C14_Witness ==
    \E c \in Conns :
        ws_pc[c] = "closed" /\ ~peer_open[c] /\ inbox[c] = <<>> /\ Unregistered(c)

\* what the handler of c has sent to its peer, oldest first
OwnMessages(c) == SelectSeq(inbox[c], LAMBDA m : m.type # "task_update")

\* the texts of the echoes the peer of c has been sent, oldest first
EchoTexts(c) ==
    LET es == SelectSeq(inbox[c], LAMBDA m : m.type = "echo")
    IN  [i \in 1..Len(es) |-> es[i].message]

\* the texts the peer of c has sent: those echoed, the one in the handler's hands,
\* those not yet received
Stream(c) ==
    EchoTexts(c) \o (IF ws_pc[c] = "echo" THEN <<data[c]>> ELSE <<>>) \o frames[c]

\* the handler's messages are one greeting, then echoes only
GreetingFirst(c) ==
    LET own == OwnMessages(c)
    IN  /\ ws_pc[c] \in {"new", "greet"} => own = <<>>
        /\ ws_pc[c] \in {"recv", "echo"} => own # <<>>
        /\ own # <<>> =>
              /\ own[1] = Greeting(ws_scope[c])
              /\ \A i \in 2..Len(own) : own[i].type = "echo"

\* C15: what a handler sends its peer is exactly one "connection" message, sent before
\* the first receive, and then only "echo" messages; the texts echoed to a peer,
\* followed by the frame in the handler's hands and the frames not yet received, are
\* the texts that peer sent, in the order sent: a step either leaves that sequence as
\* it is (a frame received, an echo delivered), or the peer appends a frame to it and
\* nothing is delivered, or the handler returns.
C15_GreetingThenEchoes ==
    [][\A c \in Conns :
          /\ GreetingFirst(c)'
          /\ \/ Stream(c)' = Stream(c)
             \/ ws_pc'[c] = "closed"
             \/ /\ inbox' = inbox
                /\ \E text \in Texts : Stream(c)' = Append(Stream(c), text)
      ]_vars

\* C15 witness: a peer has its greeting and then the echoes of the two frames it
\* sent, the malformed one first, verbatim and in order
C15_Witness ==
    \E c \in Conns :
        OwnMessages(c) = <<Greeting(ws_scope[c]), Echo("{bad json"), Echo("ping")>>

\* the scopes whose set holds the connection
ScopesOf(c) == {s \in Scopes : c \in active_connections[s]}

\* C20: a connection is never in the sets of two scopes; while its handler runs it is
\* in the set of the scope the handler connected with, and only there; that scope
\* does not change after the connect; and the handler's disconnect removes it from
\* that same scope, leaving it in none.
C20_OneScopePerConnection ==
    [][\A c \in Conns :
          /\ Cardinality(ScopesOf(c)') <= 1
          /\ Connected(c)' => ScopesOf(c)' = {ws_scope'[c]}
          /\ ws_pc[c] # "new" => ws_scope'[c] = ws_scope[c]
          /\ (Connected(c) /\ ws_pc'[c] = "closed") =>
                /\ active_connections' =
                      [active_connections EXCEPT ![ws_scope[c]] = @ \ {c}]
                /\ ScopesOf(c)' = {}
      ]_vars

\* C20 witness: a handler admitted under a project has disconnected, leaving that
\* project's set, while a connection of the global scope is still subscribed there
C20_Witness ==
    \E c, d \in Conns :
        /\ ws_pc[c] = "closed" /\ ws_scope[c] \in Projects /\ ScopesOf(c) = {}
        /\ Connected(d) /\ ws_scope[d] = None /\ ScopesOf(d) = {None}

\* the ids of the rows the iteration read with no assignee
ReadUnassigned == {tasks[i].id : i \in {j \in 1..Len(tasks) : tasks[j].assignees = <<>>}}

\* C16 as stated: in every storage state, a task with an autopilot audit entry has
\* the assignment the entry records: the manager it names is among the assignees.
C16_EntryNeverWithoutAssignment ==
    \A t \in Tasks : \A i \in 1..Len(task_logs[t]) :
        \E e \in Entities :
            /\ task_logs[t][i].message = LogMsg(e, t)
            /\ e \in Range(task_assignees[t])

\* C16: the loop writes storage in one step only, its commit, and that step writes
\* all or nothing: either every task the iteration read unassigned gets the
\* manager's link and its audit entry together and no other row changes, or (nothing
\* to do, or the commit failed) storage is left as it was; no other step of the loop
\* writes storage, and no step of any handler writes an audit entry.
C16_SingleCommit ==
    [][/\ (ap_pc = "assign" /\ ap_pc' = "notify") =>
             /\ ReadUnassigned # {}
             /\ \A t \in ReadUnassigned :
                    /\ manager_entity \in Range(task_assignees'[t])
                    /\ task_logs'[t] =
                          Append(task_logs[t], TaskLog(t, LogMsg(manager_entity, t)))
             /\ \A t \in Tasks \ ReadUnassigned :
                    /\ task_assignees'[t] = task_assignees[t]
                    /\ task_logs'[t] = task_logs[t]
             /\ task_status' = task_status
       /\ (ap_pc' # ap_pc /\ ~(ap_pc = "assign" /\ ap_pc' = "notify")) =>
             UNCHANGED <<task_status, task_assignees, task_logs>>
       /\ task_logs' # task_logs => (ap_pc = "assign" /\ ap_pc' = "notify")
      ]_vars

\* C16 witness: one commit has written the link and the audit entry of two tasks
C16_Witness ==
    /\ ap_pc = "except" /\ exc = "NameError" /\ quiet
    /\ ProcessedIds = Tasks
    /\ \A t \in Tasks :
          /\ task_assignees[t] = <<manager_entity>>
          /\ Len(task_logs[t]) = logs_before[t] + 1

\* C17: an iteration that raised (its manager lookup, task query, commit, or the
\* construction of a notification) has left storage without a new assignment or
\* audit entry and has sent no notification.
C17_ExceptionSkipsIteration ==
    ap_pc = "except" =>
        /\ \A t \in Tasks : Len(task_logs[t]) = logs_before[t]
        /\ quiet => \A t \in ProcessedIds : manager_entity \notin Range(task_assignees[t])
        /\ ap_broadcasts = <<>>

\* C18: an iteration that finds no entity with the configured manager id (the lookup
\* itself not failing) goes to its sleep with no error raised, no manager bound, no
\* stored row changed and no broadcast made; and it never reaches the task query.
C18_MissingManagerSkips ==
    [][/\ (/\ ap_pc = "lookup" /\ ap_pc' # "lookup"
           /\ query_manager_id \notin Entities
           /\ exc' # "manager query") =>
             /\ ap_pc' = "sleep"
             /\ exc' = ""
             /\ manager_entity' = None
             /\ UNCHANGED <<task_status, task_assignees, task_logs>>
             /\ ap_broadcasts' = <<>>
       /\ ap_pc' \in {"query", "assign", "notify"} => query_manager_id' \in Entities
      ]_vars

\* C18 witness: the config is enabled with the id of no entity, a pending task has no
\* assignee, and the iteration has gone to its sleep after the lookup
C18_Witness ==
    /\ ap_pc = "sleep" /\ query_manager_id = NoSuchEntity
    /\ current_config = [enabled |-> TRUE, manager_id |-> NoSuchEntity]
    /\ \E t \in Tasks : task_status[t] = "pending" /\ task_assignees[t] = <<>>

\* C19: until the first update the config read is {enabled false, no manager_id};
\* after an update it is exactly what the last request body gave, a field the body
\* omitted having its default and not the value before; so after an update carrying
\* only enabled=true the config has no manager and is not active.
C19_ConfigReplacedWhole ==
    /\ last_update = NoUpdateYet =>
          get_config = [enabled |-> FALSE, manager_id |-> None]
    /\ last_update # NoUpdateYet =>
          /\ get_config.enabled =
                IF "enabled" \in DOMAIN last_update
                THEN last_update.enabled = "true" ELSE FALSE
          /\ get_config.manager_id =
                IF "manager_id" \in DOMAIN last_update
                THEN (IF last_update.manager_id = "1" THEN 1 ELSE NoSuchEntity)
                ELSE None
    /\ last_update = [enabled |-> "true"] =>
          /\ get_config = [enabled |-> TRUE, manager_id |-> None]
          /\ ~ConfigActive

\* C19 witness: a manager was configured and has been assigned a task by the loop;
\* the last update carried only enabled=true, and the config has no manager
C19_Witness ==
    /\ last_update = [enabled |-> "true"]
    /\ get_config.manager_id = None
    /\ \E t \in Tasks : task_logs[t] # <<>>

\* the state of a connection in the spec's words
ConnState(c) ==
    IF ws_pc[c] = "new" THEN "Connecting"
    ELSE IF ws_pc[c] = "closed" THEN "Disconnected" ELSE "Connected"

\* C21: a connection's state moves only from Connecting to Connected and from
\* Connected to Disconnected; Disconnected is terminal, and a connection that has
\* been disconnected is in no scope's set in any later state.
C21_ConnectionStateMachine ==
    [][\A c \in Conns :
          /\ ConnState(c)' # ConnState(c) =>
                <<ConnState(c), ConnState(c)'>> \in
                    {<<"Connecting", "Connected">>, <<"Connected", "Disconnected">>}
          /\ ConnState(c) = "Disconnected" =>
                /\ ConnState(c)' = "Disconnected"
                /\ \A s \in Scopes : c \notin active_connections'[s]
      ]_vars

\* C21 witness: a connection has been through the three states (it was greeted, then
\* disconnected) and the other one has been admitted to the same scope since
C21_Witness ==
    \E c, d \in Conns :
        /\ ConnState(c) = "Disconnected" /\ inbox[c] # <<>>
        /\ ConnState(d) = "Connected" /\ ws_scope[d] = ws_scope[c]
        /\ active_connections[ws_scope[c]] = {d}

\* a broadcast has sends still to make
SendsUnderWay == bcast.active /\ bcast.todo # {}

BroadcastsFor(t) ==
    {k \in 1..Len(ap_broadcasts) : ap_broadcasts[k].notification.data.task_id = t}

Copies(c, m) == Cardinality({i \in 1..Len(inbox[c]) : inbox[c][i] = m})

\* C24: no connection is ever sent a notification twice; and when a broadcast is done,
\* every connection that was subscribed to the project at the call, is still
\* connected, and whose peer is there, has the notification exactly once, whichever
\* connections joined or left the project while the sends were made.
C24_ExactlyOnceDuringChurn ==
    /\ \A c \in Conns : \A i \in 1..Len(inbox[c]) :
          inbox[c][i].type = "task_update" => Copies(c, inbox[c][i]) = 1
    /\ BroadcastDone =>
          \A c \in bcast.targets :
              (Connected(c) /\ peer_open[c]) => Copies(c, bcast.notification) = 1

\* C24 witness: a broadcast is done; a connection subscribed throughout has the
\* notification once, while the other connection joined the project after the call
C24_Witness ==
    /\ BroadcastDone
    /\ \E c \in bcast.targets :
          /\ Connected(c) /\ peer_open[c] /\ Copies(c, bcast.notification) = 1
          /\ \E d \in Conns \ bcast.targets :
                Connected(d) /\ ws_scope[d] = bcast.project_id

\* the step in which the loop's commit returns
CommitStep == ap_pc = "assign" /\ ap_pc' = "notify"

\* C25 as stated: whenever the commit adds the manager to a task, the task's assignee
\* list in storage just before the commit is empty and its status is pending.
C25_CommitOnEmptyPending ==
    [][CommitStep =>
          \A t \in Tasks :
              task_assignees'[t] # task_assignees[t] =>
                  /\ task_assignees[t] = <<>>
                  /\ task_status[t] = "pending"
      ]_vars

\* C25: the rows the task query returns are the pending tasks with the assignees
\* storage holds at that moment; the commit adds the manager only to tasks that were
\* read with no assignee; and if no request handler has written a task since the
\* iteration began, such a task is still unassigned and pending just before the
\* commit.
C25_CommitOnReadState ==
    [][/\ (ap_pc = "query" /\ ap_pc' = "assign") =>
             \A i \in 1..Len(tasks') :
                 /\ task_status[tasks'[i].id] = "pending"
                 /\ tasks'[i].assignees = task_assignees[tasks'[i].id]
       /\ CommitStep =>
             \A t \in Tasks :
                 task_assignees'[t] # task_assignees[t] =>
                     /\ \E i \in 1..Len(tasks) :
                            tasks[i].id = t /\ tasks[i].assignees = <<>>
                     /\ quiet => (task_assignees[t] = <<>> /\ task_status[t] = "pending")
      ]_vars

\* C25 witness: the commit has added the manager behind an assignee that a request
\* handler gave the task after the loop had read it unassigned
C25_Witness ==
    /\ ap_pc = "notify"
    /\ \E t \in ProcessedIds :
          Len(task_assignees[t]) = 2 /\ task_assignees[t][2] = manager_entity

\* s is t with elements appended
IsPrefix(s, t) == Len(s) <= Len(t) /\ \A i \in 1..Len(s) : t[i] = s[i]

\* what a step of the loop may do to the rows of a task: leave the status, keep every
\* assignee and every log entry, add the manager at most, add log entries at most
LoopKeeps(t) ==
    /\ task_status'[t] = task_status[t]
    /\ IsPrefix(task_assignees[t], task_assignees'[t])
    /\ Range(task_assignees'[t]) \subseteq Range(task_assignees[t]) \cup {manager_entity}
    /\ IsPrefix(task_logs[t], task_logs'[t])

\* the step changes a stored row of task t
RowsChange(t) ==
    \/ task_status'[t] # task_status[t]
    \/ task_assignees'[t] # task_assignees[t]
    \/ task_logs'[t] # task_logs[t]

\* C29 as stated: a step of the loop changes no status, removes no assignee, deletes
\* no log entry, adds only the manager and log entries, and changes no row of a task
\* whose status is not pending.
C29_IterationFrame ==
    [][ap_pc' # ap_pc =>
          \A t \in Tasks :
              /\ LoopKeeps(t)
              /\ RowsChange(t) => task_status[t] = "pending"
      ]_vars

\* C29: a step of the loop changes no status, removes no assignee, deletes no log
\* entry, adds only the manager and log entries, and changes rows only of tasks that
\* the iteration's query returned as pending with no assignee.
C29_IterationFrameOnReadState ==
    [][ap_pc' # ap_pc =>
          \A t \in Tasks :
              /\ LoopKeeps(t)
              /\ RowsChange(t) => (CommitStep /\ t \in ReadUnassigned)
      ]_vars

\* C29 witness: the commit has written the manager and an audit entry on a task that
\* a request handler had moved out of pending after the loop read it
C29_Witness ==
    /\ ap_pc = "notify"
    /\ \E t \in ProcessedIds :
          /\ task_status[t] = "completed"
          /\ manager_entity \in Range(task_assignees[t])
          /\ Len(task_logs[t]) = logs_before[t] + 1

\* the config names an entity of storage as manager and is enabled
ManagerConfigured == current_config.enabled /\ current_config.manager_id \in Entities

\* C26: a commit assigns the manager to every task the iteration read unassigned, not
\* only the first; and a pending task with no assignee does not stay so for ever
\* while the config stays enabled with an existing manager: the loop's commit gives
\* it the manager (unless the task is moved or assigned by a request first, or the
\* config is changed).
C26_EventuallyAssigned ==
    /\ [][CommitStep =>
             \A i \in 1..Len(tasks) :
                 tasks[i].assignees = <<>> =>
                     manager_entity \in Range(task_assignees'[tasks[i].id])]_vars
    /\ \A t \in Tasks :
          (ManagerConfigured /\ task_status[t] = "pending" /\ task_assignees[t] = <<>>)
              ~> (\/ task_assignees[t] # <<>>
                  \/ task_status[t] # "pending"
                  \/ ~ManagerConfigured)

\* C26 witness: one commit has assigned the manager to both pending tasks while the
\* config was left alone
C26_Witness ==
    /\ ap_pc = "notify" /\ quiet /\ ManagerConfigured
    /\ current_config.manager_id = manager_entity
    /\ \A t \in Tasks : task_status[t] = "pending" /\ task_assignees[t] = <<manager_entity>>

\* C27: a task whose assignment the loop has committed gets its notification
\* broadcast: once the loop is in its notification step with the task processed, a
\* broadcast for that task follows.
C27_CommitLeadsToBroadcast ==
    \A t \in Tasks :
        (ap_pc = "notify" /\ t \in ProcessedIds) ~> (BroadcastsFor(t) # {})

\* C28: the UI flag and the config are independent cells: a step that changes the UI
\* flag changes nothing else (the config least of all), a step that changes the config
\* leaves the UI flag as it was, and the iteration's test of the config proceeds to the
\* manager lookup exactly when the config is enabled with a manager id, whatever the
\* UI flag says.
C28_IndependentCells ==
    [][/\ auto_pilot_enabled' # auto_pilot_enabled =>
              UNCHANGED <<autopilot, clock, registry>>
       /\ current_config' # current_config => auto_pilot_enabled' = auto_pilot_enabled
       /\ (ap_pc = "start" /\ ap_pc' # "start") =>
              /\ auto_pilot_enabled' = auto_pilot_enabled
              /\ (ap_pc' = "lookup") <=>
                     (current_config.enabled /\ current_config.manager_id # None)
      ]_vars

\* C28 witness: both cells have been written, the UI flag is on and the config is
\* disabled, and the loop has followed the config: it skipped the iteration
C28_Witness ==
    /\ last_update # NoUpdateYet
    /\ auto_pilot_enabled
    /\ ~current_config.enabled
    /\ ap_pc = "sleep"

\* the positions of the "connection" messages the peer of c has been sent
GreetingAt(c) == {i \in 1..Len(inbox[c]) : inbox[c][i].type = "connection"}

====
